---- MODULE Spec2Model ----
(***************************************************************************)
(* manage-thorium.py: one run of main() for one of the three subcommands.  *)
(* Text is modelled as a sequence of one-character strings, so that strip, *)
(* split, startswith and endswith are computed as Python computes them.    *)
(* The environment (the thorium-browser binary, the GitHub API, the asset  *)
(* server, sudo/nala/dpkg) answers each call nondeterministically.         *)
(***************************************************************************)
EXTENDS Naturals, Sequences, FiniteSets

VARIABLES
    command,            \* args.command
    pc,                 \* the statement of main() that runs next, or "done"
    exc,                \* the exception that ended the run at pc, or "none"
    installed_version,  \* main: installed_version
    latest_deb_url,     \* main: latest_deb_url
    latest_version,     \* main: latest_version
    downloaded_file,    \* main: downloaded_file
    result,             \* what the version command answered
    response,           \* what the releases API answered
    download,           \* what the asset server answered
    called,             \* the functions main() has called, in order
    cmds,               \* the subprocess.run calls made, in order, with outcome
    gets,               \* the requests.get calls made, in order
    files,              \* the paths written by download_file
    out                 \* the lines printed, in order

vars == <<command, pc, exc, installed_version, latest_deb_url, latest_version,
          downloaded_file, result, response, download, called, cmds, gets,
          files, out>>

\* ---------------------------------------------------------------- bounds
MaxPieces == 3      \* the version command's output is at most this many pieces
MaxAssets == 2      \* a release lists at most this many assets

\* ------------------------------------------------------------------ text
Thorium == <<"T","h","o","r","i","u","m">>
DotDeb == <<".","d","e","b">>
PackageName == <<"t","h","o","r","i","u","m","-","b","r","o","w","s","e","r">>
VersionFlag == <<"-","-","v","e","r","s","i","o","n">>
FixBroken == <<"-","f">>
DestinationFolder ==
    <<"/","h","o","m","e","/","k","a","i","/","p","r","o","j","e","c","t","s",
      "/","r","e","n","e","w","-","t","h","o","r","i","u","m">>

\* Python's None; no text equals it, since text holds one-character strings.
None == <<"None">>

IsSpace(c) == c \in {" ", "\n", "\t"}

Last(s) == s[Len(s)]

Range(s) == {s[i] : i \in 1..Len(s)}

\* str.startswith(p)
StartsWith(s, p) == Len(s) >= Len(p) /\ SubSeq(s, 1, Len(p)) = p

\* str.endswith(p)
EndsWith(s, p) == Len(s) >= Len(p) /\ SubSeq(s, Len(s) - Len(p) + 1, Len(s)) = p

\* str.lstrip()
RECURSIVE LStrip(_)
LStrip(s) ==
    IF s # <<>> /\ IsSpace(s[1]) THEN LStrip(Tail(s)) ELSE s

\* str.rstrip()
RECURSIVE RStrip(_)
RStrip(s) ==
    IF s # <<>> /\ IsSpace(s[Len(s)]) THEN RStrip(SubSeq(s, 1, Len(s) - 1)) ELSE s

\* str.strip()
Strip(s) == RStrip(LStrip(s))

\* str.split(): the maximal runs of non-whitespace, never an empty field
RECURSIVE Split(_)
Split(s) ==
    LET t == LStrip(s)
        Ends == {i \in 1..Len(t) : IsSpace(t[i])}
        e == IF Ends = {} THEN Len(t) + 1
             ELSE CHOOSE i \in Ends : \A j \in Ends : i <= j
    IN  IF t = <<>> THEN <<>>
        ELSE <<SubSeq(t, 1, e - 1)>> \o Split(SubSeq(t, e, Len(t)))

\* str.split(d): cut at every d; empty fields are kept; at least one field
RECURSIVE SplitOn(_, _)
SplitOn(s, d) ==
    LET At == {i \in 1..Len(s) : s[i] = d}
        e == CHOOSE i \in At : \A j \in At : i <= j
    IN  IF At = {} THEN <<s>>
        ELSE <<SubSeq(s, 1, e - 1)>> \o SplitOn(SubSeq(s, e + 1, Len(s)), d)

\* os.path.join(a, b) for a relative b and a directory a without trailing slash
PathJoin(a, b) == a \o <<"/">> \o b

\* print(...): the fixed text and the values formatted into it, in order
Line(text, args) == [text |-> text, args |-> args]

\* subprocess.run(argv, check=True): argv is prog followed by one argument
Cmd(prog, arg, rc) == [prog |-> prog, arg |-> arg, rc |-> rc]

\* ----------------------------------------------------------- environment
Commands == {"install", "update", "remove"}

\* outcome of one subprocess.run(..., check=True)
RunOutcomes == {"ok", "nonzero", "notfound"}

RECURSIVE Flatten(_)
Flatten(ps) == IF ps = <<>> THEN <<>> ELSE Head(ps) \o Flatten(Tail(ps))

\* the version token of the installed binary, and that of a newer release
V1 == <<"1",".","2",".","3",".","4">>
V2 == <<"1",".","2",".","3",".","5">>

Pieces == {Thorium, <<" ">>, <<"\n">>, V1}

\* what `thorium-browser --version` may write to stdout
Outputs == {Flatten(ps) : ps \in UNION {[1..n -> Pieces] : n \in 0..MaxPieces}}

Results ==
    {[status |-> "notfound", stdout |-> <<>>], [status |-> "nonzero", stdout |-> <<>>]}
    \cup {[status |-> "ok", stdout |-> o] : o \in Outputs}

UrlBase == <<"h",":","/","/","g","/">>

Asset(name) == [name |-> name, browser_download_url |-> UrlBase \o name]

AssetPool ==
    { Asset(<<"T","_">> \o V1 \o <<"_","a">> \o DotDeb),
      Asset(<<"T","_">> \o V2 \o <<"_","a">> \o DotDeb),
      Asset(<<"T","_">> \o V1 \o DotDeb),
      Asset(<<"T","-">> \o V1 \o DotDeb),
      Asset(<<"T",".","z","i","p">>) }

AssetLists == UNION {[1..n -> AssetPool] : n \in 0..MaxAssets}

\* what GET .../releases/latest may answer
\* (raised: requests.get raised ConnectionError instead of returning)
Responses ==
    {[raised |-> TRUE, status_code |-> 0, json |-> [message |-> "x"]]}
    \cup {[raised |-> FALSE, status_code |-> c, json |-> [message |-> "x"]] : c \in {403, 404}}
    \cup {[raised |-> FALSE, status_code |-> 200, json |-> [tag_name |-> "x"]]}
    \cup {[raised |-> FALSE, status_code |-> 200, json |-> [assets |-> a]] : a \in AssetLists}

\* what GET <asset url> may answer
Downloads == {"ok", "http_error", "error"}

\* ------------------------------------------------------------- functions
\* Each function is an operator from its arguments and the environment's
\* answers to its effects: ret, exc (the exception it lets escape, or
\* "none"), and the lines, commands, requests and files it produces.

get_installed_version(res) ==
    LET run == <<Cmd(<<"thorium-browser">>, VersionFlag, res.status)>>
        version_line == Strip(res.stdout)
    IN  IF res.status = "notfound" THEN
            [ret |-> None, exc |-> "none", cmds |-> run,
             out |-> <<Line("Thorium browser is not installed.", <<>>)>>]
        ELSE IF res.status = "nonzero" THEN
            [ret |-> None, exc |-> "none", cmds |-> run,
             out |-> <<Line("Thorium browser is not installed or unable to get version.", <<>>)>>]
        ELSE IF StartsWith(version_line, Thorium) THEN
            IF Len(Split(version_line)) >= 2
            THEN [ret |-> Split(version_line)[2], exc |-> "none", cmds |-> run, out |-> <<>>]
            ELSE [ret |-> None, exc |-> "IndexError", cmds |-> run, out |-> <<>>]
        ELSE [ret |-> None, exc |-> "none", cmds |-> run, out |-> <<>>]

\* check=True: "nonzero" raises CalledProcessError, a missing sudo raises
\* FileNotFoundError
Raised(rc) ==
    IF rc = "nonzero" THEN "CalledProcessError"
    ELSE IF rc = "notfound" THEN "FileNotFoundError" ELSE "none"

\* install_deb without the fix-broken step
install_debNoFix(file_path, r1, r2, r3) ==
    LET nala == Cmd(<<"sudo", "nala", "install">>, file_path, r1)
        dpkg == Cmd(<<"sudo", "dpkg", "-i">>, file_path, r2)
        msg == <<Line("Nala failed to install the package. Attempting with dpkg...", <<>>)>>
    IN  IF r1 # "nonzero" THEN [exc |-> Raised(r1), cmds |-> <<nala>>, out |-> <<>>]
        ELSE [exc |-> Raised(r2), cmds |-> <<nala, dpkg>>, out |-> msg]

\* install_deb whose fallback commands run without check=True
install_debUnchecked(file_path, r1, r2, r3) ==
    LET nala == Cmd(<<"sudo", "nala", "install">>, file_path, r1)
        dpkg == Cmd(<<"sudo", "dpkg", "-i">>, file_path, r2)
        fix == Cmd(<<"sudo", "nala", "install">>, FixBroken, r3)
        msg == <<Line("Nala failed to install the package. Attempting with dpkg...", <<>>)>>
    IN  IF r1 # "nonzero" THEN [exc |-> Raised(r1), cmds |-> <<nala>>, out |-> <<>>]
        ELSE IF r2 = "notfound" THEN [exc |-> Raised(r2), cmds |-> <<nala, dpkg>>, out |-> msg]
        ELSE [exc |-> IF r3 = "notfound" THEN Raised(r3) ELSE "none",
              cmds |-> <<nala, dpkg, fix>>, out |-> msg]

install_deb(file_path, r1, r2, r3) ==
    LET nala == Cmd(<<"sudo", "nala", "install">>, file_path, r1)
        dpkg == Cmd(<<"sudo", "dpkg", "-i">>, file_path, r2)
        fix == Cmd(<<"sudo", "nala", "install">>, FixBroken, r3)
        msg == <<Line("Nala failed to install the package. Attempting with dpkg...", <<>>)>>
    IN  IF r1 # "nonzero" THEN [exc |-> Raised(r1), cmds |-> <<nala>>, out |-> <<>>]
        ELSE IF r2 # "ok" THEN [exc |-> Raised(r2), cmds |-> <<nala, dpkg>>, out |-> msg]
        ELSE [exc |-> Raised(r3), cmds |-> <<nala, dpkg, fix>>, out |-> msg]

\* remove_package without the dpkg fallback
remove_packageNoFallback(package_name, r1, r2) ==
    [exc |-> Raised(r1), cmds |-> <<Cmd(<<"sudo", "nala", "remove">>, package_name, r1)>>,
     out |-> <<>>]

remove_package(package_name, r1, r2) ==
    LET nala == Cmd(<<"sudo", "nala", "remove">>, package_name, r1)
        dpkg == Cmd(<<"sudo", "dpkg", "-r">>, package_name, r2)
        msg == <<Line("Nala failed to remove the package. Attempting with dpkg...", <<>>)>>
    IN  IF r1 # "nonzero" THEN [exc |-> Raised(r1), cmds |-> <<nala>>, out |-> <<>>]
        ELSE [exc |-> Raised(r2), cmds |-> <<nala, dpkg>>, out |-> msg]

download_file(url, destination_folder, d) ==
    LET local_filename == Last(SplitOn(url, "/"))
        path == PathJoin(destination_folder, local_filename)
        get == <<[url |-> url, stream |-> TRUE]>>
    IN  IF d = "error" THEN
            [ret |-> None, exc |-> "ConnectionError", gets |-> get, files |-> {}]
        ELSE IF d = "http_error" THEN
            [ret |-> None, exc |-> "HTTPError", gets |-> get, files |-> {}]
        ELSE [ret |-> path, exc |-> "none", gets |-> get, files |-> {path}]

\* the loop without its early return: the last matching asset wins
RECURSIVE LastDeb(_)
LastDeb(assets) ==
    IF assets = <<>> THEN None
    ELSE IF EndsWith(Last(assets).name, DotDeb) THEN Last(assets).browser_download_url
    ELSE LastDeb(SubSeq(assets, 1, Len(assets) - 1))

\* the loop of lines 108-111 over the assets, in listed order
RECURSIVE FirstDeb(_)
FirstDeb(assets) ==
    IF assets = <<>> THEN None
    ELSE IF EndsWith(Head(assets).name, DotDeb) THEN Head(assets).browser_download_url
    ELSE FirstDeb(Tail(assets))

\* dict.get(key, default)
DictGet(d, key, default) == IF key \in DOMAIN d THEN d[key] ELSE default

get_latest_deb_release(owner, repo, resp) ==
    LET api_url == <<"https://api.github.com/repos/", owner, "/", repo, "/releases/latest">>
        get == <<[url |-> api_url, stream |-> FALSE]>>
    IN  IF resp.raised THEN
            [ret |-> None, exc |-> "ConnectionError", gets |-> get, out |-> <<>>]
        ELSE IF resp.status_code # 200 THEN
            [ret |-> None, exc |-> "none", gets |-> get,
             out |-> <<Line("Failed to fetch release data from GitHub API", <<>>)>>]
        ELSE [ret |-> FirstDeb(DictGet(resp.json, "assets", <<>>)), exc |-> "none",
              gets |-> get, out |-> <<>>]

\* ------------------------------------------------------------------ main
\* the first branch taken for every subcommand
AnyCommand(cmd) == cmd \in {"install", "update", "remove"}

\* line 132
IsInstallOrUpdate(cmd) == cmd \in {"install", "update"}

\* the guard testing for an empty string instead of None
UpdateWithoutVersionText(cmd, iv) == cmd = "update" /\ iv = <<>>

\* line 135
UpdateWithoutInstalled(cmd, iv) == cmd = "update" /\ iv = None

\* line 140: `not latest_deb_url`
Falsy(url) == url = None \/ url = <<>>

\* the file name cut at '-' instead of '_'
UrlFieldsDash(url) == SplitOn(Last(SplitOn(url, "/")), "-")

\* line 144: the fields of the URL's last path segment, cut at '_'
UrlFields(url) == SplitOn(Last(SplitOn(url, "/")), "_")

\* the comparison inverted
DifferentVersion(iv, lv) == iv # lv

\* line 145
SameVersion(iv, lv) == iv = lv

Init ==
    /\ command \in Commands
    /\ pc = (IF IsInstallOrUpdate(command) THEN "probe" ELSE "remove")
    /\ exc = "none"
    /\ installed_version = None
    /\ latest_deb_url = None
    /\ latest_version = None
    /\ downloaded_file = None
    /\ result = [status |-> "none", stdout |-> <<>>]
    /\ response = [raised |-> FALSE, status_code |-> 0, json |-> [message |-> "none"]]
    /\ download = "none"
    /\ called = <<>>
    /\ cmds = <<>>
    /\ gets = <<>>
    /\ files = {}
    /\ out = <<>>

\* line 133
Probe ==
    /\ pc = "probe" /\ exc = "none"
    /\ \E res \in Results :
        LET r == get_installed_version(res) IN
        /\ result' = res
        /\ called' = Append(called, "get_installed_version")
        /\ cmds' = cmds \o r.cmds
        /\ out' = out \o r.out
        /\ exc' = r.exc
        /\ installed_version' = (IF r.exc = "none" THEN r.ret ELSE installed_version)
        /\ pc' = (IF r.exc = "none" THEN "check" ELSE pc)
    /\ UNCHANGED <<command, latest_deb_url, latest_version, downloaded_file,
                   response, download, gets, files>>

\* lines 135-137
CheckInstalled ==
    /\ pc = "check" /\ exc = "none"
    /\ IF UpdateWithoutInstalled(command, installed_version)
       THEN /\ out' = Append(out, Line("Thorium is not installed. Use 'install' command to install it.", <<>>))
            /\ pc' = "done"
       ELSE /\ out' = out
            /\ pc' = "resolve"
    /\ UNCHANGED <<command, exc, installed_version, latest_deb_url, latest_version,
                   downloaded_file, result, response, download, called, cmds,
                   gets, files>>

\* lines 139-142
Resolve ==
    /\ pc = "resolve" /\ exc = "none"
    /\ \E resp \in Responses :
        LET r == get_latest_deb_release("Alex313031", "Thorium", resp) IN
        /\ response' = resp
        /\ called' = Append(called, "get_latest_deb_release")
        /\ gets' = gets \o r.gets
        /\ exc' = r.exc
        /\ latest_deb_url' = (IF r.exc = "none" THEN r.ret ELSE latest_deb_url)
        /\ IF r.exc # "none" THEN out' = out /\ pc' = pc
           ELSE IF Falsy(r.ret)
           THEN /\ out' = out \o r.out \o <<Line("No .deb release found", <<>>)>>
                /\ pc' = "done"
           ELSE /\ out' = out \o r.out
                /\ pc' = "compare"
    /\ UNCHANGED <<command, installed_version, latest_version, downloaded_file,
                   result, download, cmds, files>>

\* lines 144-152
Compare ==
    /\ pc = "compare" /\ exc = "none"
    /\ LET fields == UrlFields(latest_deb_url) IN
       IF Len(fields) < 2
       THEN /\ exc' = "IndexError"
            /\ UNCHANGED <<latest_version, out, pc>>
       ELSE /\ exc' = exc
            /\ latest_version' = fields[2]
            /\ IF SameVersion(installed_version, fields[2])
               THEN /\ out' = Append(out, Line("Latest version {} is already installed.", <<fields[2]>>))
                    /\ pc' = "done"
               ELSE /\ out' = out
                        \o (IF command = "update"
                            THEN <<Line("Updating Thorium from version {} to {}...",
                                        <<installed_version, fields[2]>>)>>
                            ELSE <<>>)
                        \o <<Line("Latest .deb release URL:", <<latest_deb_url>>)>>
                    /\ pc' = "download"
    /\ UNCHANGED <<command, installed_version, latest_deb_url, downloaded_file,
                   result, response, download, called, cmds, gets, files>>

\* lines 153-154
Download ==
    /\ pc = "download" /\ exc = "none"
    /\ \E d \in Downloads :
        LET r == download_file(latest_deb_url, DestinationFolder, d) IN
        /\ download' = d
        /\ called' = Append(called, "download_file")
        /\ gets' = gets \o r.gets
        /\ files' = files \cup r.files
        /\ exc' = r.exc
        /\ downloaded_file' = (IF r.exc = "none" THEN r.ret ELSE downloaded_file)
        /\ pc' = (IF r.exc = "none" THEN "install" ELSE pc)
    /\ UNCHANGED <<command, installed_version, latest_deb_url, latest_version,
                   result, response, cmds, out>>

\* lines 155-156
Install ==
    /\ pc = "install" /\ exc = "none"
    /\ \E r1 \in RunOutcomes, r2 \in RunOutcomes, r3 \in RunOutcomes :
        LET r == install_deb(downloaded_file, r1, r2, r3) IN
        /\ called' = Append(called, "install_deb")
        /\ cmds' = cmds \o r.cmds
        /\ exc' = r.exc
        /\ IF r.exc = "none"
           THEN /\ out' = out \o r.out \o <<Line("Installed {}", <<downloaded_file>>)>>
                /\ pc' = "done"
           ELSE /\ out' = out \o r.out
                /\ pc' = pc
    /\ UNCHANGED <<command, installed_version, latest_deb_url, latest_version,
                   downloaded_file, result, response, download, gets, files>>

\* lines 158-159
Remove ==
    /\ pc = "remove" /\ exc = "none"
    /\ command = "remove"
    /\ \E r1 \in RunOutcomes, r2 \in RunOutcomes :
        LET r == remove_package(PackageName, r1, r2) IN
        /\ called' = Append(called, "remove_package")
        /\ cmds' = cmds \o r.cmds
        /\ exc' = r.exc
        /\ out' = out \o r.out
        /\ pc' = (IF r.exc = "none" THEN "done" ELSE pc)
    /\ UNCHANGED <<command, installed_version, latest_deb_url, latest_version,
                   downloaded_file, result, response, download, gets, files>>

Next ==
    \/ Probe
    \/ CheckInstalled
    \/ Resolve
    \/ Compare
    \/ Download
    \/ Install
    \/ Remove

Spec == Init /\ [][Next]_vars

\* ---------------------------------------------------------------- claims
SudoCmds == SelectSeq(cmds, LAMBDA c : c.prog[1] = "sudo")

Argv(c) == [prog |-> c.prog, arg |-> c.arg]

Rcs(cs) == [i \in 1..Len(cs) |-> cs[i].rc]

Printed(line) == \E i \in 1..Len(out) : out[i] = line

PrintedText(text) == \E i \in 1..Len(out) : out[i].text = text

\* the downloader was not called, nothing was fetched or written, and no
\* package-manager command was issued
NoDownloadNoInstall ==
    /\ "download_file" \notin Range(called)
    /\ "install_deb" \notin Range(called)
    /\ \A i \in 1..Len(gets) : ~gets[i].stream
    /\ files = {}
    /\ SudoCmds = <<>>

UseInstallLine == Line("Thorium is not installed. Use 'install' command to install it.", <<>>)

NoDebLine == Line("No .deb release found", <<>>)

FailedFetchLine == Line("Failed to fetch release data from GitHub API", <<>>)

\* C1: an `update` run whose version probe returned no installed version
\* (binary missing, non-zero exit, output not starting with "Thorium") ends
\* with the 'use install' line, without querying the release, downloading
\* or invoking the package manager.
C1_UpdateWithoutInstalledAborts ==
    (command = "update" /\ pc # "probe" /\ installed_version = None) =>
        /\ NoDownloadNoInstall
        /\ "get_latest_deb_release" \notin Range(called)
        /\ pc # "check" => (pc = "done" /\ exc = "none" /\ out # <<>>
                            /\ Last(out) = UseInstallLine)

C1_Witness ==
    /\ command = "update" /\ pc = "done" /\ installed_version = None
    /\ result.status = "ok" /\ Strip(result.stdout) = V1
    /\ Printed(UseInstallLine)

\* C2: once the latest version token is extracted and equals the installed
\* version, the run has ended with the 'already installed' line and without
\* downloading or invoking the package manager.
C2_EqualVersionsNoDownload ==
    (latest_version # None /\ installed_version = latest_version) =>
        /\ pc = "done" /\ exc = "none"
        /\ Last(out) = Line("Latest version {} is already installed.", <<latest_version>>)
        /\ NoDownloadNoInstall

C2_Witness ==
    /\ installed_version = V1 /\ latest_version = V1 /\ pc = "done"
    /\ PrintedText("Latest version {} is already installed.")

\* C3: after a 200 response the resolved URL is the download URL of the
\* asset of least index whose name ends in ".deb"; with no such asset
\* (empty or missing list included) it is None and the run has ended with
\* 'No .deb release found', without download or install.
C3_FirstDebAsset ==
    ("get_latest_deb_release" \in Range(called) /\ ~response.raised
        /\ response.status_code = 200) =>
        LET assets == IF "assets" \in DOMAIN response.json
                      THEN response.json.assets ELSE <<>>
            Debs == {i \in 1..Len(assets) :
                        SubSeq(assets[i].name, Len(assets[i].name) - 3,
                               Len(assets[i].name)) = <<".","d","e","b">>}
        IN  IF Debs = {}
            THEN /\ latest_deb_url = None
                 /\ pc = "done" /\ exc = "none"
                 /\ Last(out) = NoDebLine
                 /\ NoDownloadNoInstall
            ELSE \E i \in Debs :
                    /\ \A j \in Debs : i <= j
                    /\ latest_deb_url = assets[i].browser_download_url

C3_Witness ==
    /\ "get_latest_deb_release" \in Range(called)
    /\ response.status_code = 200
    /\ "assets" \in DOMAIN response.json
    /\ Len(response.json.assets) = 2
    /\ ~EndsWith(response.json.assets[1].name, DotDeb)
    /\ latest_deb_url = response.json.assets[2].browser_download_url

\* C4 as stated: after a non-zero primary install the commands issued next
\* are exactly dpkg -i <file> and then nala install -f; after a successful
\* primary install, none.
C4_AsStated ==
    "install_deb" \in Range(called) =>
        /\ Argv(SudoCmds[1]) = [prog |-> <<"sudo", "nala", "install">>, arg |-> downloaded_file]
        /\ IF SudoCmds[1].rc = "nonzero"
           THEN /\ Len(SudoCmds) = 3
                /\ Argv(SudoCmds[2]) = [prog |-> <<"sudo", "dpkg", "-i">>, arg |-> downloaded_file]
                /\ Argv(SudoCmds[3]) = [prog |-> <<"sudo", "nala", "install">>, arg |-> <<"-","f">>]
           ELSE Len(SudoCmds) = 1

\* C4, amended: after a non-zero primary install exactly one dpkg -i <file>
\* is issued next, and one nala install -f follows it exactly when that
\* dpkg -i succeeded; after a successful primary install, neither.
C4_FallbackSequence ==
    "install_deb" \in Range(called) =>
        /\ Argv(SudoCmds[1]) = [prog |-> <<"sudo", "nala", "install">>, arg |-> downloaded_file]
        /\ IF SudoCmds[1].rc = "nonzero"
           THEN /\ Len(SudoCmds) >= 2
                /\ Argv(SudoCmds[2]) = [prog |-> <<"sudo", "dpkg", "-i">>, arg |-> downloaded_file]
                /\ IF SudoCmds[2].rc = "ok"
                   THEN /\ Len(SudoCmds) = 3
                        /\ Argv(SudoCmds[3]) = [prog |-> <<"sudo", "nala", "install">>,
                                                arg |-> <<"-","f">>]
                   ELSE Len(SudoCmds) = 2
           ELSE Len(SudoCmds) = 1

C4_Witness ==
    /\ "install_deb" \in Range(called)
    /\ Rcs(SudoCmds) = <<"nonzero", "ok", "ok">>

\* C5: in remove_package a failed primary remove is followed by exactly one
\* dpkg -r of the same package name and nothing else; a successful primary
\* remove is followed by nothing.
C5_RemoveFallback ==
    "remove_package" \in Range(called) =>
        /\ cmds = SudoCmds
        /\ Argv(cmds[1]) = [prog |-> <<"sudo", "nala", "remove">>, arg |-> PackageName]
        /\ IF cmds[1].rc = "nonzero"
           THEN /\ Len(cmds) = 2
                /\ Argv(cmds[2]) = [prog |-> <<"sudo", "dpkg", "-r">>, arg |-> cmds[1].arg]
           ELSE Len(cmds) = 1

C5_Witness ==
    /\ "remove_package" \in Range(called)
    /\ Rcs(cmds) = <<"nonzero", "ok">>
    /\ pc = "done"

\* C6: a `remove` run calls remove_package on "thorium-browser" and nothing
\* else: no version probe, no release query, no download.
C6_RemoveOnly ==
    command = "remove" =>
        /\ pc \in {"remove", "done"}
        /\ Range(called) \subseteq {"remove_package"}
        /\ gets = <<>> /\ files = {}
        /\ \A i \in 1..Len(cmds) : cmds[i].prog # <<"thorium-browser">>
        /\ (pc = "done" \/ exc # "none") =>
              /\ called = <<"remove_package">>
              /\ Argv(cmds[1]) = [prog |-> <<"sudo", "nala", "remove">>,
                                  arg |-> <<"t","h","o","r","i","u","m","-","b","r","o","w","s","e","r">>]

C6_Witness ==
    /\ command = "remove" /\ pc = "done"
    /\ called = <<"remove_package">>
    /\ result.status = "none"

\* C7 as stated: the probe never raises; it returns the second
\* whitespace-separated field when the (stripped) output starts with
\* "Thorium" and has at least two fields, and None in every other case.
C7_AsStated ==
    "get_installed_version" \in Range(called) =>
        LET line == Strip(result.stdout) IN
        /\ ~(pc = "probe" /\ exc # "none")
        /\ installed_version =
              IF result.status = "ok" /\ StartsWith(line, Thorium) /\ Len(Split(line)) >= 2
              THEN Split(line)[2] ELSE None

\* C8 as stated: a failed release query (non-200, or a network error) is
\* reported by the program and the run ends there, without download or
\* install.
C8_AsStated ==
    ("get_latest_deb_release" \in Range(called)
        /\ (response.raised \/ response.status_code # 200)) =>
        /\ Printed(FailedFetchLine)
        /\ pc = "done" /\ exc = "none"
        /\ NoDownloadNoInstall

\* C9: 'Installed <file>' is printed only after a completed download
\* followed by a successful primary install or by a failed primary install
\* and two successful fallback steps; a download refused with an HTTP error
\* status leaves the package manager uninvoked; a failing fallback step is
\* the last command of the run, which ends with its exception and without
\* the 'Installed' line.
C9_InstalledOnlyAfterSuccess ==
    IsInstallOrUpdate(command) =>
        /\ PrintedText("Installed {}") =>
              /\ download = "ok" /\ files = {downloaded_file}
              /\ Last(out) = Line("Installed {}", <<downloaded_file>>)
              /\ Rcs(SudoCmds) \in {<<"ok">>, <<"nonzero", "ok", "ok">>}
              /\ pc = "done" /\ exc = "none"
        /\ download = "http_error" =>
              /\ SudoCmds = <<>> /\ files = {}
              /\ pc = "download" /\ exc = "HTTPError"
              /\ ~PrintedText("Installed {}")
        /\ \A i \in 2..Len(SudoCmds) : SudoCmds[i].rc # "ok" =>
              /\ i = Len(SudoCmds)
              /\ pc = "install"
              /\ exc = (IF SudoCmds[i].rc = "nonzero" THEN "CalledProcessError"
                        ELSE "FileNotFoundError")
              /\ ~PrintedText("Installed {}")

C9_Witness ==
    /\ PrintedText("Installed {}")
    /\ Rcs(SudoCmds) = <<"nonzero", "ok", "ok">>
    /\ download = "ok"

\* the URL's file name has the form <name>_<version>_...deb
ExpectedFormat(url) ==
    LET seg == Last(SplitOn(url, "/"))
        Under == {i \in 1..Len(seg) : seg[i] = "_"}
    IN  Cardinality(Under) >= 2 /\ EndsWith(seg, DotDeb)

\* line 144 has been executed
CompareRan ==
    /\ "get_latest_deb_release" \in Range(called)
    /\ latest_deb_url # None
    /\ ~(pc = "compare" /\ exc = "none")

\* C10 as stated: a resolved URL whose file name is not of the form
\* <name>_<version>_...deb ends the run with an uncaught parsing error at
\* the extraction, before any download or install.
C10_AsStated ==
    (CompareRan /\ ~ExpectedFormat(latest_deb_url)) =>
        /\ pc = "compare" /\ exc = "IndexError"
        /\ NoDownloadNoInstall

\* C10, amended: the extraction ends the run with an uncaught IndexError,
\* before any download or install, exactly when the URL's last path segment
\* holds no '_'; otherwise it raises nothing and the token is the text
\* between the first '_' and the next one (or the end of the segment).
C10_IndexErrorIffNoUnderscore ==
    CompareRan =>
        LET seg == Last(SplitOn(latest_deb_url, "/"))
            Under == {i \in 1..Len(seg) : seg[i] = "_"}
            first == CHOOSE i \in Under : \A j \in Under : i <= j
            Rest == Under \ {first}
            stop == IF Rest = {} THEN Len(seg) + 1
                    ELSE CHOOSE i \in Rest : \A j \in Rest : i <= j
        IN  IF Under = {}
            THEN /\ pc = "compare" /\ exc = "IndexError"
                 /\ latest_version = None
                 /\ NoDownloadNoInstall
            ELSE /\ pc # "compare"
                 /\ latest_version = SubSeq(seg, first + 1, stop - 1)

C10_Witness ==
    /\ CompareRan
    /\ pc = "compare" /\ exc = "IndexError"
    /\ latest_deb_url = UrlBase \o <<"T","-">> \o V1 \o DotDeb

====
